---- MODULE Spec2Model ----
(***************************************************************************)
(* The density-grid endpoint of src/app/api/density-grid/route.ts (GET):   *)
(* parameter parsing and validation, the query to the record source, the   *)
(* spatial binning of the returned buildings, the per-cell aggregation,    *)
(* the derived metrics, the sort and the response.                         *)
(*                                                                         *)
(* Number representation.  Coordinates are fixed-point integers in units   *)
(* of 1/1000 degree, and the index arithmetic floor(d / (span / gridSize)) *)
(* is computed exactly as floor(d * gridSize / span).  avgApartments is    *)
(* kept in tenths.  A JavaScript value that may be NaN, null or undefined  *)
(* is a tagged tuple: <<"num", n>>, <<"nan">>, <<"null">>, <<"undefined">>.*)
(*                                                                         *)
(* Steps.  The handler runs without interruption up to its await and again *)
(* after it.  The forEach is stepped one row at a time so that a single    *)
(* iteration can be observed; the map belongs to its request, and the      *)
(* response is built by the step that follows the last iteration.          *)
(* processingTimeMs, a clock reading, is left out of the responses.        *)
(*                                                                         *)
(* The ingestion endpoint of src/app/api/admin/density/route.ts (POST) is  *)
(* modelled next to it: the closure of the promise, the 'data' and 'end'   *)
(* events of the feature stream, the callbacks given to setImmediate and   *)
(* the upserts that await the database.  Each handler runs to its next     *)
(* await; the event loop picks what runs next.                             *)
(*                                                                         *)
(* getIdealistaToken of src/app/api/admin/scrape/route.ts is the third     *)
(* part: one call, its fetches, the timers of its retries and its result.  *)
(***************************************************************************)
EXTENDS Integers, Sequences, FiniteSets, TLC

(***************************************************************************)
(* JavaScript values                                                       *)
(***************************************************************************)
Num(n) == <<"num", n>>
NaN == <<"nan">>
Null == <<"null">>
Undefined == <<"undefined">>
IsNum(v) == v[1] = "num"
Val(v) == v[2]

\* JavaScript truthiness of a number-or-null value: null, undefined, NaN and 0 are falsy.
Truthy(v) == IsNum(v) /\ Val(v) # 0

\* `v || 0` on a number-or-null value.
OrZero(v) == IF Truthy(v) THEN Val(v) ELSE 0

\* Math.round(p / q) for q > 0: the nearest integer, a half rounded towards +infinity.
RoundDiv(p, q) == (2 * p + q) \div (2 * q)

\* a < b and a > b on JavaScript numbers: every comparison with NaN is false.
JsLess(a, b) == IsNum(a) /\ IsNum(b) /\ Val(a) < Val(b)
JsGreater(a, b) == IsNum(a) /\ IsNum(b) /\ Val(a) > Val(b)

\* Math.min(a, b): NaN when either argument is NaN.
MathMin(a, b) ==
  IF IsNum(a) /\ IsNum(b)
  THEN (IF Val(a) < Val(b) THEN a ELSE b)
  ELSE NaN

(***************************************************************************)
(* parseInt on a string, given as its sequence of characters               *)
(***************************************************************************)
DigitChars == <<"0", "1", "2", "3", "4", "5", "6", "7", "8", "9">>
IsDigit(c) == \E i \in 1..10 : DigitChars[i] = c
DigitVal(c) == (CHOOSE i \in 1..10 : DigitChars[i] = c) - 1

\* The value of the longest run of digits of s starting at position i, continuing acc.
RECURSIVE ParseDigits(_, _, _)
ParseDigits(s, i, acc) ==
  IF i <= Len(s) /\ IsDigit(s[i])
  THEN ParseDigits(s, i + 1, 10 * acc + DigitVal(s[i]))
  ELSE acc

\* The first position of s at or after i that holds no blank.
RECURSIVE SkipBlanks(_, _)
SkipBlanks(s, i) ==
  IF i <= Len(s) /\ s[i] = " " THEN SkipBlanks(s, i + 1) ELSE i

\* parseInt(s): leading blanks, an optional sign, then digits up to the first
\* character that is none; NaN when no digit is found there.
ParseInt(s) ==
  LET i == SkipBlanks(s, 1)
      signed == i <= Len(s) /\ s[i] \in {"-", "+"}
      j == IF signed THEN i + 1 ELSE i
      magnitude == ParseDigits(s, j, 0)
  IN IF j <= Len(s) /\ IsDigit(s[j])
     THEN Num(IF signed /\ s[i] = "-" THEN 0 - magnitude ELSE magnitude)
     ELSE NaN

(***************************************************************************)
(* The bounds registry                                                     *)
(***************************************************************************)
CityNames == {"sevilla", "madrid", "barcelona"}

CITY_BOUNDS ==
  [c \in CityNames |->
     CASE c = "sevilla"   -> [north |-> 37450, south |-> 37320, east |-> -5850, west |-> -6050]
       [] c = "madrid"    -> [north |-> 40500, south |-> 40350, east |-> -3600, west |-> -3800]
       [] c = "barcelona" -> [north |-> 41450, south |-> 41320, east |-> 2250, west |-> 2050]]

\* The all-lowercase property names every object literal inherits from Object.prototype:
\* CITY_BOUNDS[name] is truthy for them although they are no city.
InheritedKeys == {"constructor", "__proto__"}

\* !CITY_BOUNDS[city] is false: the lookup yields something truthy.
HasCityEntry(city) == city \in CityNames \cup InheritedKeys

\* String.prototype.toLowerCase on the city names the requests carry.
ToLowerCase(s) ==
  CASE s = "MADRID" -> "madrid"
    [] s = "Sevilla" -> "sevilla"
    [] OTHER -> s

\* The bounds of a registry entry; an inherited key is no bounds record and its
\* north, south, east and west are undefined.
BoundsDefined(city) == city \in CityNames

(***************************************************************************)
(* Request parameters                                                      *)
(***************************************************************************)
Str(s) == <<"str", s>>

MinGridSize == 16
MaxGridSize == 80
DefaultGridSize == <<"4", "0">>
DefaultCity == "sevilla"

\* searchParams.get('city')?.toLowerCase() || 'sevilla'
ParseCity(param) ==
  IF param = Null
  THEN DefaultCity
  ELSE IF ToLowerCase(Val(param)) = "" THEN DefaultCity ELSE ToLowerCase(Val(param))

\* parseInt(searchParams.get('gridSize') || '40')
ParseGridSize(param) ==
  IF param = Null \/ Val(param) = <<>>
  THEN ParseInt(DefaultGridSize)
  ELSE ParseInt(Val(param))

\* gridSize < 16 || gridSize > 80
GridSizeRejected(g) == JsLess(g, Num(MinGridSize)) \/ JsGreater(g, Num(MaxGridSize))

\* The values of the city parameter the requests carry (null: no parameter).
CityParams ==
  {Null, Str(""), Str("sevilla"), Str("MADRID"), Str("barcelona"), Str("paris"),
   Str("constructor")}

\* The values of the gridSize parameter the requests carry, as character sequences.
GridSizeParams ==
  {Null, Str(<<>>), Str(<<"1", "6">>), Str(<<"8", "0">>), Str(<<"1", "5">>),
   Str(<<"8", "1">>), Str(<<"0">>), Str(<<"-", "3">>), Str(<<"1", "7", ".", "5">>),
   Str(<<"a", "b", "c">>)}

(***************************************************************************)
(* The record source: the building_density table behind the query          *)
(***************************************************************************)
Row(lat, lng, apartments, use, year) ==
  [latitude |-> lat, longitude |-> lng, total_apartments |-> apartments,
   current_use |-> use, beginning_year |-> year]

\* Rows the table may hold (any number of each, in any order).
SevillaRows ==
  {Row(Num(37320), Num(-6050), Num(5), Str("1_residential"), Num(2000)),
   Row(Num(37321), Num(-6049), Num(7), Null, Num(2010)),
   Row(Num(37320), Num(-6049), Null, Str("RESIDENTIAL"), Num(2020)),
   Row(Num(37321), Num(-6050), Num(0), Str("4_1_office"), Num(2025)),
   Row(Num(37450), Num(-5850), Num(3), Str("1_residential"), Null),
   Row(Num(37385), Num(-5900), Num(12), Null, Num(1800))}

OtherCityRows ==
  {Row(Num(40400), Num(-3700), Num(4), Str("1_residential"), Num(1950)),
   Row(Num(40500), Num(-3600), Num(9), Null, Num(1801)),
   Row(Num(41450), Num(2250), Num(2), Null, Num(0))}

\* Rows no query of a registered city matches: outside every region, or without
\* coordinates.
StrayRows ==
  {Row(Num(37319), Num(-6051), Num(6), Null, Num(1990)),
   Row(Num(37451), Num(-5849), Num(8), Null, Num(1990)),
   Row(Null, Num(-6000), Num(1), Null, Num(1990))}

TableRows == SevillaRows \cup OtherCityRows \cup StrayRows

\* The filter without its two .gte conditions.
MatchesQueryNoLower(row, b) ==
  /\ row.latitude # Null
  /\ row.longitude # Null
  /\ Val(row.latitude) <= b.north
  /\ Val(row.longitude) <= b.east

\* .gte('latitude', south).lte('latitude', north).gte('longitude', west)
\* .lte('longitude', east).not('latitude','is',null).not('longitude','is',null)
MatchesQuery(row, b) ==
  /\ row.latitude # Null
  /\ row.longitude # Null
  /\ Val(row.latitude) >= b.south
  /\ Val(row.latitude) <= b.north
  /\ Val(row.longitude) >= b.west
  /\ Val(row.longitude) <= b.east

Query(b) == {row \in TableRows : MatchesQuery(row, b)}

MaxRecords == 3

\* Every sequence of at most n elements of S.
BoundedSeq(S, n) == UNION {[1..k -> S] : k \in 0..n}

\* new Date().getFullYear() of the runs.
CurrentYears == {2024, 2025}

(***************************************************************************)
(* Spatial binning                                                         *)
(***************************************************************************)
\* ToNumber of a coordinate in an arithmetic expression: null is 0.
ToNumber(v) == IF IsNum(v) THEN Val(v) ELSE 0

\* Math.floor((coord - low) / step) with step = (high - low) / gridSize.
FloorCell(coord, low, high, g) ==
  IF IsNum(g)
  THEN Num(((ToNumber(coord) - low) * Val(g)) \div (high - low))
  ELSE NaN

\* The last index taken one too high: gridSize.
LastIndexOffByOne(g) == g

\* gridSize - 1
LastIndex(g) == IF IsNum(g) THEN Num(Val(g) - 1) ELSE NaN

\* Math.min(Math.floor((lng - bounds.west) / lngStep), gridSize - 1)
XIndex(building, b, g) ==
  MathMin(FloorCell(building.longitude, b.west, b.east, g), LastIndex(g))

\* Math.min(Math.floor((lat - bounds.south) / latStep), gridSize - 1)
YIndex(building, b, g) ==
  MathMin(FloorCell(building.latitude, b.south, b.north, g), LastIndex(g))

\* bounds.low + (index + 0.5) * step, in units of 1 / (2 * gridSize) of the
\* coordinate unit.
CellCenter(index, low, high, g) ==
  IF IsNum(index) /\ IsNum(g)
  THEN Num(2 * Val(g) * low + (2 * Val(index) + 1) * (high - low))
  ELSE NaN

\* The new cell with its count started at 1.
NewCellCountOne(xIndex, yIndex, b, g) ==
  [x |-> xIndex,
   y |-> yIndex,
   centerLat |-> CellCenter(yIndex, b.south, b.north, g),
   centerLng |-> CellCenter(xIndex, b.west, b.east, g),
   buildingCount |-> 1,
   totalApartments |-> 0,
   avgApartments |-> 0,
   avgConstructionYear |-> Null,
   residentialCount |-> 0,
   densityScore |-> 0]

\* The cell created for a key the map does not hold yet.
NewCell(xIndex, yIndex, b, g) ==
  [x |-> xIndex,
   y |-> yIndex,
   centerLat |-> CellCenter(yIndex, b.south, b.north, g),
   centerLng |-> CellCenter(xIndex, b.west, b.east, g),
   buildingCount |-> 0,
   totalApartments |-> 0,
   avgApartments |-> 0,
   avgConstructionYear |-> Null,
   residentialCount |-> 0,
   densityScore |-> 0]

\* The lookup with the key built as `${yIndex},${xIndex}`.
CellPosSwapped(map, xIndex, yIndex) ==
  IF \E i \in 1..Len(map) : map[i].x = yIndex /\ map[i].y = xIndex
  THEN CHOOSE i \in 1..Len(map) : map[i].x = yIndex /\ map[i].y = xIndex
  ELSE 0

\* gridMap.get(cellKey): the position in the map (kept in insertion order) of the
\* cell whose key is `${xIndex},${yIndex}`, 0 when there is none.
CellPos(map, xIndex, yIndex) ==
  IF \E i \in 1..Len(map) : map[i].x = xIndex /\ map[i].y = yIndex
  THEN CHOOSE i \in 1..Len(map) : map[i].x = xIndex /\ map[i].y = yIndex
  ELSE 0

(***************************************************************************)
(* Cell aggregation                                                        *)
(***************************************************************************)
\* current_use.toLowerCase().includes('residential') on the uses the table holds.
IncludesResidential(use) == use \in {"1_residential", "RESIDENTIAL", "residential"}

\* building.current_use && building.current_use.toLowerCase().includes('residential')
IsResidential(building) ==
  /\ building.current_use # Null
  /\ Val(building.current_use) # ""
  /\ IncludesResidential(Val(building.current_use))

MinYear == 1800

\* The year condition without its upper limit.
ValidYearNoUpper(building, currentYear) ==
  /\ Truthy(building.beginning_year)
  /\ Val(building.beginning_year) > MinYear

\* beginning_year && beginning_year > 1800 && beginning_year <= new Date().getFullYear()
ValidYear(building, currentYear) ==
  /\ Truthy(building.beginning_year)
  /\ Val(building.beginning_year) > MinYear
  /\ Val(building.beginning_year) <= currentYear

\* The divisor of the running average: the cell's buildingCount, already incremented.
AverageDivisor(cell) == cell.buildingCount

\* Math.round(avg + (year - avg) / count) for an integer avg.
RunningAverage(avg, year, count) == avg + RoundDiv(year - avg, count)

\* The construction-year update of a cell whose buildingCount is already incremented.
UpdateYear(cell, building, currentYear) ==
  IF ValidYear(building, currentYear)
  THEN IF cell.avgConstructionYear = Null
       THEN building.beginning_year
       ELSE Num(RunningAverage(Val(cell.avgConstructionYear),
                               Val(building.beginning_year), AverageDivisor(cell)))
  ELSE cell.avgConstructionYear

\* The forEach body with totalApartments assigned (=) instead of accumulated (+=).
AggregateAssign(cell, building, currentYear) ==
  LET counted == [cell EXCEPT !.buildingCount = @ + 1,
                              !.totalApartments = OrZero(building.total_apartments),
                              !.residentialCount =
                                 IF IsResidential(building) THEN @ + 1 ELSE @]
  IN [counted EXCEPT !.avgConstructionYear = UpdateYear(counted, building, currentYear)]

\* The forEach body after the cell is found or created.
Aggregate(cell, building, currentYear) ==
  LET counted == [cell EXCEPT !.buildingCount = @ + 1,
                              !.totalApartments = @ + OrZero(building.total_apartments),
                              !.residentialCount =
                                 IF IsResidential(building) THEN @ + 1 ELSE @]
  IN [counted EXCEPT !.avgConstructionYear = UpdateYear(counted, building, currentYear)]

\* One iteration of buildings.forEach on the map.
BinInto(map, building, b, g, currentYear) ==
  LET xIndex == XIndex(building, b, g)
      yIndex == YIndex(building, b, g)
      pos == CellPos(map, xIndex, yIndex)
  IN IF pos = 0
     THEN Append(map, Aggregate(NewCell(xIndex, yIndex, b, g), building, currentYear))
     ELSE [map EXCEPT ![pos] = Aggregate(map[pos], building, currentYear)]

(***************************************************************************)
(* Result assembly                                                         *)
(***************************************************************************)
\* The average rounded to a whole number: Math.round(totalApartments / buildingCount).
AvgApartmentsWhole(cell) ==
  IF cell.buildingCount > 0
  THEN 10 * RoundDiv(cell.totalApartments, cell.buildingCount)
  ELSE 0

\* Math.round((totalApartments / buildingCount) * 10) / 10, in tenths.
AvgApartments(cell) ==
  IF cell.buildingCount > 0
  THEN RoundDiv(cell.totalApartments * 10, cell.buildingCount)
  ELSE 0

DensityScore(cell) == cell.totalApartments

\* The derived metrics of one cell.
FinalizeCell(cell) ==
  [cell EXCEPT !.avgApartments = AvgApartments(cell),
               !.densityScore = DensityScore(cell)]

\* The comparator written (a, b) => a.densityScore - b.densityScore.
ComesBeforeAscending(b, a) == a.densityScore - b.densityScore > 0

\* The comparator (a, b) => b.densityScore - a.densityScore is positive: b goes first.
ComesBefore(b, a) == b.densityScore - a.densityScore > 0

\* cells with c inserted before the first cell it must precede, after its equals.
RECURSIVE InsertCell(_, _)
InsertCell(cells, c) ==
  IF cells = <<>>
  THEN <<c>>
  ELSE IF ComesBefore(c, Head(cells))
       THEN <<c>> \o cells
       ELSE <<Head(cells)>> \o InsertCell(Tail(cells), c)

\* Array.prototype.sort with the comparator: a stable sort.
RECURSIVE SortCells(_)
SortCells(cells) ==
  IF cells = <<>>
  THEN <<>>
  ELSE InsertCell(SortCells(SubSeq(cells, 1, Len(cells) - 1)), cells[Len(cells)])

\* gridCells[0]?.densityScore || 0
MaxDensityOf(cells) == IF cells = <<>> THEN 0 ELSE cells[1].densityScore

(***************************************************************************)
(* The GET handler                                                         *)
(***************************************************************************)
VARIABLES
  thisYear,            \* per request: new Date().getFullYear() when it runs
  pc,                  \* per request: "start", "fetching", "binning", "done"
  gridSizeParam,       \* per request: searchParams.get('gridSize'), as received
  city,                \* per request: the parsed city
  gridSize,            \* per request: the parsed gridSize (a number or NaN)
  queries,             \* per request: queries sent to the record source
  fetched,             \* per request: how the await of the query ended
  buildings,           \* per request: the rows the query returned
  processedBuildings,  \* per request: the rows the forEach has gone through
  gridMap,             \* per request: the cells, in insertion order
  response             \* per request: <<>>, or <<the response sent>>

\* The ingestion endpoint (POST of admin/density): the variables of its closure,
\* the stream it reads, its pending callbacks and its database calls in flight.
VARIABLES
  phase,               \* "idle", "loading", "streaming" or "failed"
  maxBuildings,        \* the limit of the request body
  pendingFeatures,     \* the features of the file the stream has not emitted yet
  sourceState,         \* "flowing", "ended" (end emitted), "errored", "destroyed"
  existingBuildingIds, \* the references loaded from the table, plus those upserted
  processed,
  skippedDuplicates,
  errorCount,
  seen,
  limitReached,
  streamEnded,
  processingQueue,
  isProcessing,
  processedRefs,       \* the Set processedBuildings of the closure
  buildingBatch,
  immediates,          \* the callbacks given to setImmediate, in order
  upserts,             \* the calls of processBatch that await the database
  sentRefs,            \* per reference, the number of upserts that carried it
  table,               \* the references the table building_density holds
  verifying,           \* initiateTermination awaits its verification query
  ingestResponse       \* <<>>, or <<the response the promise resolved to>>

\* One call of getIdealistaToken (admin/scrape): the environment it reads, its
\* position, and what it has requested, waited for and received so far.
VARIABLES
  tokenPc,             \* "idle", "fetching", "waiting", "returned" or "thrown"
  apiKey,              \* process.env.IDEALISTA_API_KEY
  secret,              \* process.env.IDEALISTA_SECRET
  retryCount,          \* the parameter of the running invocation
  tokenRequests,       \* calls of fetch made so far
  tokenWaits,          \* the delays given to setTimeout, in order
  tokenAttempts,       \* what each finished fetch answered, in order
  tokenResult          \* <<>>, or <<what the call returned or threw>>

gridVars ==
  <<thisYear, pc, gridSizeParam, city, gridSize, queries, fetched, buildings,
    processedBuildings, gridMap, response>>

ingestVars ==
  <<phase, maxBuildings, pendingFeatures, sourceState, existingBuildingIds, processed,
    skippedDuplicates, errorCount, seen, limitReached, streamEnded, processingQueue,
    isProcessing, processedRefs, buildingBatch, immediates, upserts, sentRefs,
    table, verifying, ingestResponse>>

tokenVars ==
  <<tokenPc, apiKey, secret, retryCount, tokenRequests, tokenWaits, tokenAttempts,
    tokenResult>>

vars == <<gridVars, ingestVars, tokenVars>>

\* getIdealistaToken before it is called.
TokenInit ==
  /\ tokenPc = "idle"
  /\ apiKey = Undefined
  /\ secret = Undefined
  /\ retryCount = 0
  /\ tokenRequests = 0
  /\ tokenWaits = <<>>
  /\ tokenAttempts = <<>>
  /\ tokenResult = <<>>

\* The references the table building_density holds before the run.
TableRefs == {"E"}

\* The ingestion endpoint before any POST.
IngestInit ==
  /\ phase = "idle"
  /\ maxBuildings = 0
  /\ pendingFeatures = <<>>
  /\ sourceState = "flowing"
  /\ existingBuildingIds = {}
  /\ processed = 0
  /\ skippedDuplicates = 0
  /\ errorCount = 0
  /\ seen = {}
  /\ limitReached = FALSE
  /\ streamEnded = FALSE
  /\ processingQueue = <<>>
  /\ isProcessing = FALSE
  /\ processedRefs = {}
  /\ buildingBatch = <<>>
  /\ immediates = <<>>
  /\ upserts = <<>>
  /\ sentRefs = [ref \in {} |-> 0]
  /\ table = TableRefs
  /\ verifying = FALSE
  /\ ingestResponse = <<>>

ErrorResponse(code, message) == [status |-> code, body |-> [error |-> message]]

\* The response of a request whose query returned no row.
EmptyResponse(r) ==
  [status |-> 200,
   body |-> [success |-> TRUE,
             city |-> city[r],
             grid |-> <<>>,
             metadata |-> [totalBuildings |-> 0,
                           gridSize |-> gridSize[r],
                           gridCells |-> 0]]]

\* The response of a request whose rows are binned into gridCells.
GridResponse(r, gridCells) ==
  [status |-> 200,
   body |-> [success |-> TRUE,
             city |-> city[r],
             grid |-> gridCells,
             metadata |-> [totalBuildings |-> Len(buildings[r]),
                           gridSize |-> gridSize[r],
                           gridCells |-> Len(gridCells),
                           maxDensity |-> MaxDensityOf(gridCells),
                           bounds |-> CITY_BOUNDS[city[r]]]]]

InitFor(R) ==
  /\ IngestInit
  /\ TokenInit
  /\ thisYear \in [R -> CurrentYears]
  /\ pc = [r \in R |-> "start"]
  /\ gridSizeParam = [r \in R |-> Null]
  /\ fetched = [r \in R |-> "pending"]
  /\ city = [r \in R |-> ""]
  /\ gridSize = [r \in R |-> NaN]
  /\ queries = [r \in R |-> 0]
  /\ buildings = [r \in R |-> <<>>]
  /\ processedBuildings = [r \in R |-> 0]
  /\ gridMap = [r \in R |-> <<>>]
  /\ response = [r \in R |-> <<>>]

\* The handler up to its await: parameters parsed and validated, the client
\* created, the query sent.
Receive(r, cityParam, gridParam, clientOk) ==
  LET c == ParseCity(cityParam)
      g == ParseGridSize(gridParam)
  IN /\ pc[r] = "start"
     /\ gridSizeParam' = [gridSizeParam EXCEPT ![r] = gridParam]
     /\ city' = [city EXCEPT ![r] = c]
     /\ gridSize' = [gridSize EXCEPT ![r] = g]
     /\ IF ~HasCityEntry(c)
        THEN /\ response' = [response EXCEPT ![r] = <<ErrorResponse(400, "Unsupported city")>>]
             /\ pc' = [pc EXCEPT ![r] = "done"]
             /\ UNCHANGED queries
        ELSE IF GridSizeRejected(g)
        THEN /\ response' = [response EXCEPT ![r] =
                               <<ErrorResponse(400, "gridSize must be between 16 and 80")>>]
             /\ pc' = [pc EXCEPT ![r] = "done"]
             /\ UNCHANGED queries
        ELSE IF ~clientOk
        THEN /\ response' = [response EXCEPT ![r] =
                               <<ErrorResponse(500, "Failed to generate density grid")>>]
             /\ pc' = [pc EXCEPT ![r] = "done"]
             /\ UNCHANGED queries
        ELSE /\ queries' = [queries EXCEPT ![r] = @ + 1]
             /\ pc' = [pc EXCEPT ![r] = "fetching"]
             /\ UNCHANGED response
     /\ UNCHANGED <<ingestVars, tokenVars>>
     /\ UNCHANGED <<thisYear, fetched, buildings, processedBuildings, gridMap>>

\* The rows a query of the request's bounds may return.
QueryResults(r) == BoundedSeq(Query(CITY_BOUNDS[city[r]]), MaxRecords)

\* The await returns rows: none and the empty response is sent, some and the
\* binning starts.
Fetched(r, rows) ==
  /\ pc[r] = "fetching"
  /\ fetched' = [fetched EXCEPT ![r] = "rows"]
  /\ buildings' = [buildings EXCEPT ![r] = rows]
  /\ IF Len(rows) = 0
     THEN /\ response' = [response EXCEPT ![r] = <<EmptyResponse(r)>>]
          /\ pc' = [pc EXCEPT ![r] = "done"]
     ELSE /\ pc' = [pc EXCEPT ![r] = "binning"]
          /\ UNCHANGED response
  /\ UNCHANGED <<ingestVars, tokenVars>>
  /\ UNCHANGED <<thisYear, gridSizeParam, city, gridSize, queries, processedBuildings,
                 gridMap>>

FetchOk(r) ==
  /\ BoundsDefined(city[r])
  /\ \E rows \in QueryResults(r) : Fetched(r, rows)

\* FetchError without the test of error: buildings is null and the empty response
\* is sent.
FetchErrorIgnored(r) ==
  /\ pc[r] = "fetching"
  /\ fetched' = [fetched EXCEPT ![r] = "error"]
  /\ response' = [response EXCEPT ![r] = <<EmptyResponse(r)>>]
  /\ pc' = [pc EXCEPT ![r] = "done"]
  /\ UNCHANGED <<ingestVars, tokenVars>>
  /\ UNCHANGED <<thisYear, gridSizeParam, city, gridSize, queries, buildings,
                 processedBuildings, gridMap>>

\* The await returns an error: the database failed, or rejected bounds that are
\* undefined.
FetchError(r) ==
  /\ pc[r] = "fetching"
  /\ fetched' = [fetched EXCEPT ![r] = "error"]
  /\ response' = [response EXCEPT ![r] = <<ErrorResponse(500, "Database query failed")>>]
  /\ pc' = [pc EXCEPT ![r] = "done"]
  /\ UNCHANGED <<ingestVars, tokenVars>>
  /\ UNCHANGED <<thisYear, gridSizeParam, city, gridSize, queries, buildings,
                 processedBuildings, gridMap>>

\* The await throws and the catch block answers.
FetchThrow(r) ==
  /\ pc[r] = "fetching"
  /\ fetched' = [fetched EXCEPT ![r] = "thrown"]
  /\ response' = [response EXCEPT ![r] =
                    <<ErrorResponse(500, "Failed to generate density grid")>>]
  /\ pc' = [pc EXCEPT ![r] = "done"]
  /\ UNCHANGED <<ingestVars, tokenVars>>
  /\ UNCHANGED <<thisYear, gridSizeParam, city, gridSize, queries, buildings,
                 processedBuildings, gridMap>>

\* BinRecord with gridMap declared at module level: every request writes the map
\* of the module.
BinRecordShared(r) ==
  LET shared == CHOOSE q \in DOMAIN pc : TRUE
  IN /\ pc[r] = "binning"
     /\ processedBuildings[r] < Len(buildings[r])
     /\ gridMap' = [gridMap EXCEPT ![shared] =
                      BinInto(@, buildings[r][processedBuildings[r] + 1],
                              CITY_BOUNDS[city[r]], gridSize[r], thisYear[r])]
     /\ processedBuildings' = [processedBuildings EXCEPT ![r] = @ + 1]
     /\ UNCHANGED <<ingestVars, tokenVars>>
     /\ UNCHANGED <<thisYear, pc, gridSizeParam, city, gridSize, queries, fetched,
                    buildings, response>>

\* One iteration of buildings.forEach.
BinRecord(r) ==
  /\ pc[r] = "binning"
  /\ processedBuildings[r] < Len(buildings[r])
  /\ gridMap' = [gridMap EXCEPT ![r] =
                   BinInto(@, buildings[r][processedBuildings[r] + 1],
                           CITY_BOUNDS[city[r]], gridSize[r], thisYear[r])]
  /\ processedBuildings' = [processedBuildings EXCEPT ![r] = @ + 1]
  /\ UNCHANGED <<ingestVars, tokenVars>>
  /\ UNCHANGED <<thisYear, pc, gridSizeParam, city, gridSize, queries, fetched, buildings,
                 response>>

\* gridCells: the cells of the map with their derived metrics, sorted.
GridCells(map) ==
  SortCells([i \in 1..Len(map) |-> FinalizeCell(map[i])])

\* Finalize with gridMap declared at module level: every request answers from the
\* map of the module.
FinalizeShared(r) ==
  LET shared == CHOOSE q \in DOMAIN pc : TRUE
  IN /\ pc[r] = "binning"
     /\ processedBuildings[r] = Len(buildings[r])
     /\ gridMap' = [gridMap EXCEPT ![shared] = [i \in 1..Len(@) |-> FinalizeCell(@[i])]]
     /\ response' = [response EXCEPT ![r] = <<GridResponse(r, GridCells(gridMap[shared]))>>]
     /\ pc' = [pc EXCEPT ![r] = "done"]
     /\ UNCHANGED <<ingestVars, tokenVars>>
     /\ UNCHANGED <<thisYear, gridSizeParam, city, gridSize, queries, fetched, buildings,
                    processedBuildings>>

\* After the forEach: the derived metrics, the sort and the response.
Finalize(r) ==
  /\ pc[r] = "binning"
  /\ processedBuildings[r] = Len(buildings[r])
  /\ gridMap' = [gridMap EXCEPT ![r] = [i \in 1..Len(@) |-> FinalizeCell(@[i])]]
  /\ response' = [response EXCEPT ![r] = <<GridResponse(r, GridCells(gridMap[r]))>>]
  /\ pc' = [pc EXCEPT ![r] = "done"]
  /\ UNCHANGED <<ingestVars, tokenVars>>
  /\ UNCHANGED <<thisYear, gridSizeParam, city, gridSize, queries, fetched, buildings,
                 processedBuildings>>

\* The steps of the handler around the answer of the record source.
HandlerStep(r) ==
  \/ \E cityParam \in CityParams, gridParam \in GridSizeParams, clientOk \in BOOLEAN :
       Receive(r, cityParam, gridParam, clientOk)
  \/ FetchError(r)
  \/ FetchThrow(r)
  \/ BinRecord(r)
  \/ Finalize(r)

NextFor(R) == \E r \in R : FetchOk(r) \/ HandlerStep(r)

Requests == {"r1"}

Init == InitFor(Requests)
Next == NextFor(Requests)
Spec == Init /\ [][Next]_vars

(***************************************************************************)
(* The binning fed by a record source that does not restrict its rows to   *)
(* the bounds: the forEach applied to any row of the table.                *)
(***************************************************************************)
UnfilteredRows == StrayRows \cup OtherCityRows

FetchAnyOk(r) ==
  /\ BoundsDefined(city[r])
  /\ \E rows \in BoundedSeq(UnfilteredRows, MaxRecords) : Fetched(r, rows)

NextAnySource(R) == \E r \in R : FetchAnyOk(r) \/ HandlerStep(r)

SpecAnySource == Init /\ [][NextAnySource(Requests)]_vars

(***************************************************************************)
(* Two requests served by the same process: the steps of one interleave     *)
(* with the steps of the other.                                            *)
(***************************************************************************)
PairRequests == {"r1", "r2"}

PairCityParams == {Null, Str("MADRID")}
PairGridSizeParams == {Null, Str(<<"1", "6">>)}

\* The rows of the table the two requests read.
PairRows ==
  {Row(Num(37320), Num(-6050), Num(5), Str("1_residential"), Num(2000)),
   Row(Num(37321), Num(-6050), Num(0), Str("4_1_office"), Num(2025)),
   Row(Num(40400), Num(-3700), Num(4), Str("1_residential"), Num(1950)),
   Row(Num(40500), Num(-3600), Num(9), Null, Num(1801))}

MaxPairRecords == 2

PairFetchOk(r) ==
  /\ BoundsDefined(city[r])
  /\ \E rows \in BoundedSeq(Query(CITY_BOUNDS[city[r]]) \cap PairRows, MaxPairRecords) :
       Fetched(r, rows)

PairStep(r) ==
  \/ \E cityParam \in PairCityParams, gridParam \in PairGridSizeParams,
        clientOk \in BOOLEAN :
       Receive(r, cityParam, gridParam, clientOk)
  \/ PairFetchOk(r)
  \/ FetchError(r)
  \/ FetchThrow(r)
  \/ BinRecord(r)
  \/ Finalize(r)

NextPair == \E r \in PairRequests : PairStep(r)

SpecPair == InitFor(PairRequests) /\ [][NextPair]_vars

(***************************************************************************)
(* The ingestion endpoint: POST of admin/density.  The handlers of the      *)
(* closure are functions of the closure's state s, a record of its         *)
(* variables; each runs to its next await.                                 *)
(***************************************************************************)
\* The features of data/sevilla_buildings.geojson: rc14 is the reference the
\* handler reads (NoRef: the feature has none), apartments the number it reads.
NoRef == ""

Feature(rc14, apartments, hasGeometry) ==
  [rc14 |-> rc14, apartments |-> apartments, hasGeometry |-> hasGeometry]

FeaturePool ==
  {Feature("A", 2, TRUE), Feature("B", 4, TRUE), Feature("E", 3, TRUE),
   Feature("Z", 0, TRUE)}

MaxFeatures == 3

\* The values of maxBuildings the requests carry.
LimitValues == {1, 2, 3}

BatchLimit == 50

\* BATCH_SIZE = Math.min(maxBuildings, 50)
BATCH_SIZE(limit) == IF limit < BatchLimit THEN limit ELSE BatchLimit

\* Array.prototype.slice(0, end)
Slice(batch, end) ==
  LET n == IF end < 0
           THEN (IF Len(batch) + end < 0 THEN 0 ELSE Len(batch) + end)
           ELSE (IF end < Len(batch) THEN end ELSE Len(batch))
  IN SubSeq(batch, 1, n)

\* The references of the buildings of a batch.
Refs(batch) == {batch[i].rc14 : i \in 1..Len(batch)}

\* The state of the closure.
Closure ==
  [maxBuildings |-> maxBuildings,
   sourceState |-> sourceState,
   existingBuildingIds |-> existingBuildingIds,
   processed |-> processed,
   skippedDuplicates |-> skippedDuplicates,
   errorCount |-> errorCount,
   seen |-> seen,
   limitReached |-> limitReached,
   streamEnded |-> streamEnded,
   processingQueue |-> processingQueue,
   isProcessing |-> isProcessing,
   processedBuildings |-> processedRefs,
   buildingBatch |-> buildingBatch,
   immediates |-> immediates,
   upserts |-> upserts,
   sentRefs |-> sentRefs,
   table |-> table,
   verifying |-> verifying,
   resolved |-> ingestResponse]

\* The handler leaves the closure in state s.
Becomes(s) ==
  /\ maxBuildings' = s.maxBuildings
  /\ sourceState' = s.sourceState
  /\ existingBuildingIds' = s.existingBuildingIds
  /\ processed' = s.processed
  /\ skippedDuplicates' = s.skippedDuplicates
  /\ errorCount' = s.errorCount
  /\ seen' = s.seen
  /\ limitReached' = s.limitReached
  /\ streamEnded' = s.streamEnded
  /\ processingQueue' = s.processingQueue
  /\ isProcessing' = s.isProcessing
  /\ processedRefs' = s.processedBuildings
  /\ buildingBatch' = s.buildingBatch
  /\ immediates' = s.immediates
  /\ upserts' = s.upserts
  /\ sentRefs' = s.sentRefs
  /\ table' = s.table
  /\ verifying' = s.verifying
  /\ ingestResponse' = s.resolved

\* setImmediate(callback)
SetImmediate(s, callback) == [s EXCEPT !.immediates = Append(@, callback)]

\* resolve(response): the promise keeps the first response it is resolved to.
Resolve(s, r) == IF s.resolved = <<>> THEN [s EXCEPT !.resolved = <<r>>] ELSE s

\* The response of a run, with limitReached as given.
IngestResults(s, limit) ==
  [status |-> 200,
   body |-> [success |-> TRUE,
             results |-> [processed |-> s.processed,
                          skippedDuplicates |-> s.skippedDuplicates,
                          errorCount |-> s.errorCount,
                          uniqueRCs |-> Cardinality(s.seen),
                          limitReached |-> limit,
                          existingBuildingsCount |->
                            Cardinality(s.existingBuildingIds)]]]

\* The upserts per reference once batch is sent too.
CountSent(sent, batch) ==
  [ref \in DOMAIN sent \cup Refs(batch) |->
     (IF ref \in DOMAIN sent THEN sent[ref] ELSE 0)
       + Cardinality({i \in 1..Len(batch) : batch[i].rc14 = ref})]

\* processBatch(batch) up to its await: the upsert is sent; owner is the function
\* that awaits it.
ProcessBatch(s, owner, batch) ==
  [s EXCEPT !.upserts = Append(@, [owner |-> owner, batch |-> batch]),
            !.sentRefs = CountSent(@, batch)]

\* batch.forEach: the references enter existingBuildingIds and processedBuildings.
Track(s, batch) ==
  [s EXCEPT !.existingBuildingIds = @ \cup Refs(batch),
            !.processedBuildings = @ \cup Refs(batch)]

\* initiateTermination from its verification query on, up to the await of the
\* query.
Verify(s) == [s EXCEPT !.verifying = TRUE]

\* initiateTermination up to its first await.
InitiateTermination(s) ==
  IF s.limitReached
  THEN s
  ELSE LET s1 == [s EXCEPT !.limitReached = TRUE]
           finalBatch == Slice(s.buildingBatch, s.maxBuildings - s.processed)
       IN IF Len(s.buildingBatch) > 0
          THEN IF Len(finalBatch) > 0
               THEN ProcessBatch(s1, "initiateTermination", finalBatch)
               ELSE Verify([s1 EXCEPT !.buildingBatch = <<>>])
          ELSE Verify(s1)

\* initiateTermination after its final batch is upserted.
TerminationBatchDone(s, batch) ==
  Verify([Track(s, batch) EXCEPT !.processed = @ + Len(batch),
                                 !.buildingBatch = <<>>])

\* initiateTermination after its final batch failed.
TerminationBatchFailed(s) ==
  LET remainingSlots == s.maxBuildings - s.processed
      finalBatchSize == IF Len(s.buildingBatch) < remainingSlots
                        THEN Len(s.buildingBatch) ELSE remainingSlots
  IN Verify([s EXCEPT !.errorCount = @ + finalBatchSize])

\* initiateTermination after its verification query: the queue is cleared, the
\* response is sent and the destruction of the source is scheduled.
TerminationResolve(s) ==
  LET s1 == [s EXCEPT !.verifying = FALSE, !.processingQueue = <<>>]
  IN SetImmediate(Resolve(s1, IngestResults(s1, TRUE)), "destroy")

\* checkProcessingComplete up to its await.
CheckProcessingComplete(s) ==
  IF s.streamEnded /\ Len(s.processingQueue) = 0 /\ ~s.isProcessing /\ ~s.limitReached
  THEN IF Len(s.buildingBatch) > 0
       THEN ProcessBatch(s, "checkProcessingComplete", s.buildingBatch)
       ELSE Resolve(s, IngestResults(s, FALSE))
  ELSE s

\* checkProcessingComplete after its final batch is upserted: batch is the batch
\* that was sent, buildingBatch the one the closure holds now.
CompleteBatchDone(s, batch) ==
  LET s1 == [Track(s, s.buildingBatch) EXCEPT !.processed = @ + Len(batch),
                                               !.buildingBatch = <<>>]
  IN Resolve(s1, IngestResults(s1, FALSE))

\* checkProcessingComplete after its final batch failed: the batch is kept.
CompleteBatchFailed(s) ==
  LET s1 == [s EXCEPT !.errorCount = @ + Len(s.buildingBatch)]
  IN Resolve(s1, IngestResults(s1, FALSE))

\* The finally block of processNext without its setImmediate.
FinallyNotScheduled(s) == [s EXCEPT !.isProcessing = FALSE]

\* The finally block of processNext.
Finally(s) == SetImmediate([s EXCEPT !.isProcessing = FALSE], "processNext")

\* A return from inside the try of processNext that resets isProcessing and
\* schedules processNext itself: the finally block then does both once more.
SkipFeature(s) == Finally(Finally(s))

\* IsDuplicate that looks at the session cache only.
IsDuplicateSeenOnly(s, rc14) == rc14 \in s.seen

\* The reference is in the session cache or in the pre-loaded set: the feature is
\* a duplicate.
IsDuplicate(s, rc14) == rc14 \in s.seen \/ rc14 \in s.existingBuildingIds

\* The duplicate is skipped: counted, and remembered in the session cache.
SkipDuplicate(s, rc14) ==
  SkipFeature([s EXCEPT !.skippedDuplicates = @ + 1, !.seen = @ \cup {rc14}])

\* processNext once the building is pushed to the batch: the batch is upserted
\* when it is full or reaches the limit.
FlushBatch(s) ==
  LET batchToProcess == Slice(s.buildingBatch, s.maxBuildings - s.processed)
      emptied == [s EXCEPT !.buildingBatch = <<>>]
  IN IF \/ Len(s.buildingBatch) >= BATCH_SIZE(s.maxBuildings)
        \/ s.processed + Len(s.buildingBatch) >= s.maxBuildings
     THEN IF Len(batchToProcess) > 0
          THEN ProcessBatch(s, "processNext", batchToProcess)
          ELSE IF emptied.processed >= emptied.maxBuildings
               THEN Finally(InitiateTermination(emptied))
               ELSE Finally(emptied)
     ELSE Finally(s)

\* processNext after its batch is upserted.
NextBatchDone(s, batch) ==
  LET s1 == [Track(s, batch) EXCEPT !.processed = @ + Len(batch),
                                    !.buildingBatch = <<>>]
  IN IF s1.processed >= s1.maxBuildings
     THEN Finally(InitiateTermination(s1))
     ELSE Finally(s1)

\* NextBatchFailed that enters the references of the batch in the tracking sets.
NextBatchFailedTracked(s) ==
  Finally([Track(s, s.buildingBatch) EXCEPT !.errorCount = @ + Len(s.buildingBatch),
                                            !.buildingBatch = <<>>])

\* processNext after its batch failed: the batch is counted as errors and dropped.
NextBatchFailed(s) ==
  Finally([s EXCEPT !.errorCount = @ + Len(s.buildingBatch),
                    !.buildingBatch = <<>>])

\* The try block of processNext for the feature f it took from the queue.
ProcessFeature(s, f) ==
  IF f.rc14 = NoRef THEN SkipFeature(s)
  ELSE IF IsDuplicate(s, f.rc14) THEN SkipDuplicate(s, f.rc14)
  ELSE IF s.processed >= s.maxBuildings THEN Finally(InitiateTermination(s))
  ELSE LET s1 == [s EXCEPT !.seen = @ \cup {f.rc14}]
       IN IF f.apartments <= 0 THEN SkipFeature(s1)
          ELSE IF ~f.hasGeometry THEN SkipFeature(s1)
          ELSE FlushBatch([s1 EXCEPT !.buildingBatch =
                             Append(@, [rc14 |-> f.rc14,
                                        apartments |-> f.apartments])])

\* processNext up to its await.
ProcessNext(s) ==
  IF s.isProcessing \/ Len(s.processingQueue) = 0 \/ s.limitReached
  THEN SetImmediate(s, "checkProcessingComplete")
  ELSE IF s.processed >= s.maxBuildings
       THEN InitiateTermination(s)
       ELSE ProcessFeature([s EXCEPT !.isProcessing = TRUE,
                                     !.processingQueue = Tail(@)],
                           Head(s.processingQueue))

\* The callback of setImmediate named by callback.
RunCallback(s, callback) ==
  CASE callback = "processNext" -> ProcessNext(s)
    [] callback = "checkProcessingComplete" -> CheckProcessingComplete(s)
    [] callback = "destroy" -> [s EXCEPT !.sourceState = "destroyed"]

\* The continuation of the function that awaits the upsert u, which succeeded.
UpsertDone(s, u) ==
  CASE u.owner = "processNext" -> NextBatchDone(s, u.batch)
    [] u.owner = "checkProcessingComplete" -> CompleteBatchDone(s, u.batch)
    [] u.owner = "initiateTermination" -> TerminationBatchDone(s, u.batch)

\* The continuation of the function that awaits the upsert u, which failed.
UpsertFailed(s, u) ==
  CASE u.owner = "processNext" -> NextBatchFailed(s)
    [] u.owner = "checkProcessingComplete" -> CompleteBatchFailed(s)
    [] u.owner = "initiateTermination" -> TerminationBatchFailed(s)

\* s without the i-th of the upserts in flight.
Settle(s, i) ==
  [s EXCEPT !.upserts = SubSeq(@, 1, i - 1) \o SubSeq(@, i + 1, Len(@))]

\* The database writes the rows of the batch.
Written(s, batch) == [s EXCEPT !.table = @ \cup Refs(batch)]

\* POST: the body is read and the existing references are requested.
Post(limit, features) ==
  /\ phase = "idle"
  /\ phase' = "loading"
  /\ maxBuildings' = limit
  /\ pendingFeatures' = features
  /\ UNCHANGED <<sourceState, existingBuildingIds, processed, skippedDuplicates,
                 errorCount, seen, limitReached, streamEnded, processingQueue,
                 isProcessing, processedRefs, buildingBatch, immediates, upserts,
                 sentRefs, table,
                 verifying, ingestResponse>>
  /\ UNCHANGED <<gridVars, tokenVars>>

\* The existing references are loaded and the pipeline is set up.
LoadExisting ==
  /\ phase = "loading"
  /\ phase' = "streaming"
  /\ Becomes([Closure EXCEPT !.existingBuildingIds = table])
  /\ UNCHANGED pendingFeatures
  /\ UNCHANGED <<gridVars, tokenVars>>

\* The load of the existing references fails: 500.
LoadFailed ==
  /\ phase = "loading"
  /\ phase' = "failed"
  /\ Becomes(Resolve(Closure,
                     ErrorResponse(500, "Failed to load existing buildings")))
  /\ UNCHANGED pendingFeatures
  /\ UNCHANGED <<gridVars, tokenVars>>

\* features.on('data')
DataEvent ==
  /\ phase = "streaming"
  /\ sourceState = "flowing"
  /\ pendingFeatures # <<>>
  /\ pendingFeatures' = Tail(pendingFeatures)
  /\ Becomes(IF limitReached
             THEN Closure
             ELSE ProcessNext([Closure EXCEPT !.processingQueue =
                                 Append(@, Head(pendingFeatures))]))
  /\ UNCHANGED phase
  /\ UNCHANGED <<gridVars, tokenVars>>

\* features.on('end')
EndEvent ==
  /\ phase = "streaming"
  /\ sourceState = "flowing"
  /\ pendingFeatures = <<>>
  /\ Becomes(IF limitReached
             THEN [Closure EXCEPT !.sourceState = "ended"]
             ELSE CheckProcessingComplete([Closure EXCEPT !.sourceState = "ended",
                                                          !.streamEnded = TRUE]))
  /\ UNCHANGED <<phase, pendingFeatures>>
  /\ UNCHANGED <<gridVars, tokenVars>>

\* The stages of the pipeline and the message of their 'error' handlers.
StreamStages == {"File read", "JSON parsing", "Pick filter", "Stream array"}

\* A stage of the pipeline emits an error other than the close that follows
\* source.destroy(): the stream stops; its handler resolves a 500 unless the
\* limit was reached, and so does the catch of the pipeline after it.
StreamError(stage) ==
  /\ phase = "streaming"
  /\ sourceState = "flowing"
  /\ Becomes(IF limitReached
             THEN [Closure EXCEPT !.sourceState = "errored"]
             ELSE Resolve([Closure EXCEPT !.sourceState = "errored"],
                          ErrorResponse(500, stage \o " failed")))
  /\ UNCHANGED <<phase, pendingFeatures>>
  /\ UNCHANGED <<gridVars, tokenVars>>

\* The event loop runs the oldest callback given to setImmediate.
RunImmediate ==
  /\ immediates # <<>>
  /\ Becomes(RunCallback([Closure EXCEPT !.immediates = Tail(@)], Head(immediates)))
  /\ UNCHANGED <<phase, pendingFeatures>>
  /\ UNCHANGED <<gridVars, tokenVars>>

\* The database answers an upsert: the rows are written.
UpsertSucceeds ==
  /\ \E i \in 1..Len(upserts) : 
       Becomes(UpsertDone(Written(Settle(Closure, i), upserts[i].batch), upserts[i]))
  /\ UNCHANGED <<phase, pendingFeatures>>
  /\ UNCHANGED <<gridVars, tokenVars>>

\* The database answers an upsert with an error: processBatch throws.
UpsertFails ==
  /\ \E i \in 1..Len(upserts) : 
       Becomes(UpsertFailed(Settle(Closure, i), upserts[i]))
  /\ UNCHANGED <<phase, pendingFeatures>>
  /\ UNCHANGED <<gridVars, tokenVars>>

\* The database answers the verification query of initiateTermination.
VerificationDone ==
  /\ verifying
  /\ Becomes(TerminationResolve(Closure))
  /\ UNCHANGED <<phase, pendingFeatures>>
  /\ UNCHANGED <<gridVars, tokenVars>>

NextIngest ==
  \/ \E limit \in LimitValues, features \in BoundedSeq(FeaturePool, MaxFeatures) :
       Post(limit, features)
  \/ LoadExisting
  \/ LoadFailed
  \/ DataEvent
  \/ EndEvent
  \/ \E stage \in StreamStages : StreamError(stage)
  \/ RunImmediate
  \/ UpsertSucceeds
  \/ UpsertFails
  \/ VerificationDone

\* The density grid is not requested while the ingestion runs.
InitIngest == InitFor(Requests) /\ thisYear = [r \in Requests |-> 2025]

SpecIngest == InitIngest /\ [][NextIngest]_vars

\* ---------------------------------------------------------------------------
\* getIdealistaToken (admin/scrape).

maxRetries == 3

\* The values an environment variable can have: unset, empty or set.
EnvValues == {Undefined, Str(""), Str("k")}

\* JavaScript truthiness of a string or undefined.
TruthyText(v) == v # Undefined /\ v # Str("")

\* The guard in front of the try block, negated.
CredentialsMissing(key, sec) == ~TruthyText(key) \/ ~TruthyText(sec)

\* How one fetch of the token can end: it rejects (network error, timeout), it
\* answers with a status that is not ok, or with a body whose access_token is
\* absent, empty or a token.
FetchOutcomes ==
  {[rejects |-> TRUE, ok |-> FALSE, access_token |-> Undefined],
   [rejects |-> FALSE, ok |-> FALSE, access_token |-> Undefined]}
    \cup {[rejects |-> FALSE, ok |-> TRUE, access_token |-> t] :
            t \in {Undefined, Str(""), Str("t1"), Str("t2")}}

\* The try block reaches its return statement.
AttemptSucceeds(o) == ~o.rejects /\ o.ok /\ TruthyText(o.access_token)

\* The condition of the catch block with <= for <.
MayRetryInclusive(count) == count <= maxRetries

\* The condition under which the catch block retries.
MayRetry(count) == count < maxRetries

\* The delay the catch block waits before it retries, in milliseconds.
RetryDelay(count) == (count + 1) * 1000

\* The start of an invocation with the given retryCount: it throws when a
\* credential is missing and calls fetch otherwise.
Invoke(count) ==
  /\ retryCount' = count
  /\ IF CredentialsMissing(apiKey', secret')
       THEN /\ tokenPc' = "thrown"
            /\ tokenResult' = <<[thrown |-> TRUE, value |-> Str("Missing credentials")]>>
            /\ tokenRequests' = tokenRequests
       ELSE /\ tokenPc' = "fetching"
            /\ tokenResult' = tokenResult
            /\ tokenRequests' = tokenRequests + 1

\* A caller calls getIdealistaToken().
GetIdealistaToken(key, sec) ==
  /\ tokenPc = "idle"
  /\ apiKey' = key
  /\ secret' = sec
  /\ Invoke(0)
  /\ UNCHANGED <<tokenWaits, tokenAttempts>>
  /\ UNCHANGED <<gridVars, ingestVars>>

\* The fetch in flight ends: the token is returned, or the catch block sets a
\* timer for the retry, or throws when no retry is left.
FetchSettles(o) ==
  /\ tokenPc = "fetching"
  /\ tokenAttempts' = Append(tokenAttempts, o)
  /\ IF AttemptSucceeds(o)
       THEN /\ tokenPc' = "returned"
            /\ tokenResult' = <<[thrown |-> FALSE, value |-> o.access_token]>>
            /\ tokenWaits' = tokenWaits
       ELSE IF MayRetry(retryCount)
       THEN /\ tokenPc' = "waiting"
            /\ tokenResult' = tokenResult
            /\ tokenWaits' = Append(tokenWaits, RetryDelay(retryCount))
       ELSE /\ tokenPc' = "thrown"
            /\ tokenResult' = <<[thrown |-> TRUE, value |-> Str("Failed to get token")]>>
            /\ tokenWaits' = tokenWaits
  /\ UNCHANGED <<apiKey, secret, retryCount, tokenRequests>>
  /\ UNCHANGED <<gridVars, ingestVars>>

\* The timer of the catch block fires: getIdealistaToken(retryCount + 1).
TimerFires ==
  /\ tokenPc = "waiting"
  /\ UNCHANGED <<apiKey, secret>>
  /\ Invoke(retryCount + 1)
  /\ UNCHANGED <<tokenWaits, tokenAttempts>>
  /\ UNCHANGED <<gridVars, ingestVars>>

NextToken ==
  \/ \E key \in EnvValues, sec \in EnvValues : GetIdealistaToken(key, sec)
  \/ \E o \in FetchOutcomes : FetchSettles(o)
  \/ TimerFires

SpecToken == InitIngest /\ [][NextToken]_vars

\* The event loop runs every callback that is ready, the stream goes on emitting
\* until it ends or fails, and every database call returns.
FairIngest ==
  /\ WF_vars(LoadExisting \/ LoadFailed)
  /\ WF_vars(DataEvent)
  /\ WF_vars(EndEvent)
  /\ WF_vars(RunImmediate)
  /\ WF_vars(UpsertSucceeds \/ UpsertFails)
  /\ WF_vars(VerificationDone)

FairSpecIngest == SpecIngest /\ FairIngest

(***************************************************************************)
(* Properties                                                              *)
(***************************************************************************)
Answered(r) == response[r] # <<>>
Resp(r) == response[r][1]
Succeeded(r) == Answered(r) /\ Resp(r).status = 200
Grid(r) == Resp(r).body.grid
ValidGridSize(g) == IsNum(g) /\ Val(g) >= MinGridSize /\ Val(g) <= MaxGridSize
Binned(r) == pc[r] \in {"binning", "done"} /\ BoundsDefined(city[r])

\* floor((coord - low) / ((high - low) / g)) for numbers.
ExactFloor(coord, low, high, g) == ((coord - low) * g) \div (high - low)
Clamp(v, low, high) == IF v < low THEN low ELSE IF v > high THEN high ELSE v

\* C1: in every successful response to a request with a valid gridSize, every
\* cell of the grid has integer indices x and y with 0 <= x < gridSize and
\* 0 <= y < gridSize.
C1_CellsInsideGrid ==
  \A r \in DOMAIN pc :
    (Succeeded(r) /\ ValidGridSize(gridSize[r])) =>
      \A i \in 1..Len(Grid(r)) :
        LET c == Grid(r)[i]
        IN /\ IsNum(c.x) /\ Val(c.x) \in 0..(Val(gridSize[r]) - 1)
           /\ IsNum(c.y) /\ Val(c.y) \in 0..(Val(gridSize[r]) - 1)

\* A successful response whose grid holds a cell of the first column and row and a
\* cell of the last column and row.
C1_Witness ==
  \E r \in DOMAIN pc :
    /\ Succeeded(r) /\ ValidGridSize(gridSize[r])
    /\ \E i, j \in 1..Len(Grid(r)) :
         /\ Grid(r)[i].x = Num(0) /\ Grid(r)[i].y = Num(0)
         /\ Grid(r)[j].x = Num(Val(gridSize[r]) - 1)
         /\ Grid(r)[j].y = Num(Val(gridSize[r]) - 1)

CornerRecords(r) ==
  {i \in 1..processedBuildings[r] :
     /\ buildings[r][i].latitude = Num(CITY_BOUNDS[city[r]].north)
     /\ buildings[r][i].longitude = Num(CITY_BOUNDS[city[r]].east)}

\* cells holds the cell (gridSize-1, gridSize-1) and it counts at least n records.
LastCellCounts(cells, g, n) ==
  \E k \in 1..Len(cells) :
    /\ cells[k].x = Num(g - 1)
    /\ cells[k].y = Num(g - 1)
    /\ cells[k].buildingCount >= n

\* C3: for every region and every valid gridSize, a record whose latitude is
\* bounds.north and whose longitude is bounds.east is binned into the cell
\* (gridSize-1, gridSize-1), in the map and in the grid returned.
C3_CornerRecordInLastCell ==
  \A r \in DOMAIN pc :
    (Binned(r) /\ ValidGridSize(gridSize[r]) /\ CornerRecords(r) # {}) =>
      /\ LastCellCounts(gridMap[r], Val(gridSize[r]), Cardinality(CornerRecords(r)))
      /\ Succeeded(r) =>
           LastCellCounts(Grid(r), Val(gridSize[r]), Cardinality(CornerRecords(r)))

\* A successful response to a request whose rows include two on the north-east
\* corner and one elsewhere.
C3_Witness ==
  \E r \in DOMAIN pc :
    /\ Succeeded(r) /\ ValidGridSize(gridSize[r]) /\ BoundsDefined(city[r])
    /\ Cardinality(CornerRecords(r)) = 2
    /\ Len(Grid(r)) = 2

\* The positions among the first n rows of request r whose computed index pair is
\* that of cell c.
Members(r, c, n) ==
  {i \in 1..n :
     /\ XIndex(buildings[r][i], CITY_BOUNDS[city[r]], gridSize[r]) = c.x
     /\ YIndex(buildings[r][i], CITY_BOUNDS[city[r]], gridSize[r]) = c.y}

\* total_apartments with a missing value counted as 0.
ApartmentsGiven(building) ==
  IF building.total_apartments = Null THEN 0 ELSE Val(building.total_apartments)

\* The sum of ApartmentsGiven over the positions of members that are at most n.
RECURSIVE ApartmentsOf(_, _, _)
ApartmentsOf(rows, members, n) ==
  IF n = 0
  THEN 0
  ELSE ApartmentsOf(rows, members, n - 1)
         + (IF n \in members THEN ApartmentsGiven(rows[n]) ELSE 0)

\* Cell c counts and sums exactly the rows among the first n whose index pair is its own.
CountsItsMembers(r, c, n) ==
  /\ c.buildingCount = Cardinality(Members(r, c, n))
  /\ c.totalApartments = ApartmentsOf(buildings[r], Members(r, c, n), n)

\* C4: for every cell (x, y), buildingCount is the number of input records whose
\* computed index pair is (x, y) and totalApartments is the sum of their
\* total_apartments, a missing value counted as 0: of the records processed so
\* far during the pass, of all of them in the grid returned, where densityScore
\* equals totalApartments.
C4_CellCountsAndSums ==
  \A r \in DOMAIN pc :
    Binned(r) =>
      /\ \A k \in 1..Len(gridMap[r]) :
           CountsItsMembers(r, gridMap[r][k], processedBuildings[r])
      /\ Succeeded(r) =>
           \A k \in 1..Len(Grid(r)) :
             /\ CountsItsMembers(r, Grid(r)[k], Len(buildings[r]))
             /\ Grid(r)[k].densityScore = Grid(r)[k].totalApartments

\* A grid returned with a cell of three records, one of them without
\* total_apartments, and 12 apartments.
C4_Witness ==
  \E r \in DOMAIN pc :
    /\ Succeeded(r)
    /\ \E k \in 1..Len(Grid(r)) :
         /\ Grid(r)[k].buildingCount = 3
         /\ Grid(r)[k].densityScore = 12
         /\ \E i \in 1..Len(buildings[r]) : buildings[r][i].total_apartments = Null

\* C5: the grid returned is sparse: a cell (x, y) is in it if and only if at
\* least one input record was binned into (x, y), no two cells share an index
\* pair and no cell has buildingCount 0.
C5_SparseGrid ==
  \A r \in DOMAIN pc :
    Succeeded(r) =>
      /\ \A i, j \in 1..Len(Grid(r)) :
           (Grid(r)[i].x = Grid(r)[j].x /\ Grid(r)[i].y = Grid(r)[j].y) => i = j
      /\ \A k \in 1..Len(Grid(r)) :
           /\ Grid(r)[k].buildingCount > 0
           /\ Members(r, Grid(r)[k], Len(buildings[r])) # {}
      /\ \A i \in 1..Len(buildings[r]) :
           \E k \in 1..Len(Grid(r)) : i \in Members(r, Grid(r)[k], Len(buildings[r]))

\* A grid returned for three rows, two of them in one cell off the diagonal.
C5_Witness ==
  \E r \in DOMAIN pc :
    /\ Succeeded(r)
    /\ Len(buildings[r]) = 3
    /\ Len(Grid(r)) = 2
    /\ \E k \in 1..Len(Grid(r)) :
         Grid(r)[k].buildingCount = 2 /\ Grid(r)[k].x # Grid(r)[k].y

\* The sum of buildingCount over cells.
RECURSIVE SumCounts(_)
SumCounts(cells) ==
  IF cells = <<>> THEN 0 ELSE Head(cells).buildingCount + SumCounts(Tail(cells))

\* C6: in every successful response the sum of buildingCount over the cells
\* returned is at most metadata.totalBuildings, which counts every row received
\* from the record source; no row is skipped, so the two are equal.
C6_CountsSumToTotal ==
  \A r \in DOMAIN pc :
    Succeeded(r) =>
      /\ Resp(r).body.metadata.totalBuildings = Len(buildings[r])
      /\ SumCounts(Grid(r)) <= Resp(r).body.metadata.totalBuildings
      /\ SumCounts(Grid(r)) = Resp(r).body.metadata.totalBuildings

\* A successful response for three rows, two of them on the north-east corner and
\* counted in the last cell.
C6_Witness ==
  \E r \in DOMAIN pc :
    /\ Succeeded(r) /\ ValidGridSize(gridSize[r])
    /\ Resp(r).body.metadata.totalBuildings = 3
    /\ \E k \in 1..Len(Grid(r)) :
         /\ Grid(r)[k].x = Num(Val(gridSize[r]) - 1)
         /\ Grid(r)[k].buildingCount = 2

\* The construction year is present and in (1800, current year].
YearInRange(r, building) ==
  /\ building.beginning_year # Null
  /\ Val(building.beginning_year) > 1800
  /\ Val(building.beginning_year) <= thisYear[r]

\* The sum of beginning_year over the positions of members that are at most n.
RECURSIVE YearsOf(_, _, _)
YearsOf(rows, members, n) ==
  IF n = 0
  THEN 0
  ELSE YearsOf(rows, members, n - 1)
         + (IF n \in members THEN Val(rows[n].beginning_year) ELSE 0)

\* C7: when every record binned into a cell carries a valid construction year,
\* the cell's final avgConstructionYear equals the arithmetic mean of those years
\* (in a response to a request with a valid gridSize).
C7_AverageIsMean ==
  \A r \in DOMAIN pc :
    (Succeeded(r) /\ ValidGridSize(gridSize[r])) =>
      \A k \in 1..Len(Grid(r)) :
        LET members == Members(r, Grid(r)[k], Len(buildings[r]))
        IN (\A i \in members : YearInRange(r, buildings[r][i])) =>
             /\ IsNum(Grid(r)[k].avgConstructionYear)
             /\ Val(Grid(r)[k].avgConstructionYear) * Cardinality(members)
                  = YearsOf(buildings[r], members, Len(buildings[r]))

\* The positions in map of the cells with index pair (xIndex, yIndex).
CellsAt(map, xIndex, yIndex) ==
  {k \in 1..Len(map) : map[k].x = xIndex /\ map[k].y = yIndex}

\* Field f of the cell of map with index pair (xIndex, yIndex), or initial when the
\* map has no such cell.
FieldAt(map, xIndex, yIndex, f, initial) ==
  IF CellsAt(map, xIndex, yIndex) = {}
  THEN initial
  ELSE map[CHOOSE k \in CellsAt(map, xIndex, yIndex) : TRUE][f]

\* C8: an iteration on a record whose construction year is missing or out of
\* (1800, current year] increments its cell's buildingCount, adds its apartments
\* to totalApartments and leaves the cell's avgConstructionYear as it was before
\* the record (null for a cell it creates).
C8_InvalidYearKeepsAverage ==
  [][\A r \in DOMAIN pc :
       (pc[r] = "binning" /\ processedBuildings'[r] = processedBuildings[r] + 1) =>
         LET building == buildings[r][processedBuildings[r] + 1]
             xIndex == XIndex(building, CITY_BOUNDS[city[r]], gridSize[r])
             yIndex == YIndex(building, CITY_BOUNDS[city[r]], gridSize[r])
         IN ~YearInRange(r, building) =>
              /\ Cardinality(CellsAt(gridMap'[r], xIndex, yIndex)) = 1
              /\ FieldAt(gridMap'[r], xIndex, yIndex, "buildingCount", 0)
                   = FieldAt(gridMap[r], xIndex, yIndex, "buildingCount", 0) + 1
              /\ FieldAt(gridMap'[r], xIndex, yIndex, "totalApartments", 0)
                   = FieldAt(gridMap[r], xIndex, yIndex, "totalApartments", 0)
                       + ApartmentsGiven(building)
              /\ FieldAt(gridMap'[r], xIndex, yIndex, "avgConstructionYear", Null)
                   = FieldAt(gridMap[r], xIndex, yIndex, "avgConstructionYear", Null)
    ]_vars

\* The forEach has just processed a record with a year after the current one, in a
\* cell that already had an average, and the cell still has it.
C8_Witness ==
  \E r \in DOMAIN pc :
    /\ pc[r] = "binning"
    /\ processedBuildings[r] >= 2
    /\ LET building == buildings[r][processedBuildings[r]]
           xIndex == XIndex(building, CITY_BOUNDS[city[r]], gridSize[r])
           yIndex == YIndex(building, CITY_BOUNDS[city[r]], gridSize[r])
       IN /\ building.beginning_year # Null
          /\ Val(building.beginning_year) > thisYear[r]
          /\ FieldAt(gridMap[r], xIndex, yIndex, "buildingCount", 0) >= 2
          /\ FieldAt(gridMap[r], xIndex, yIndex, "avgConstructionYear", Null) # Null

\* C9 as stated: for every cell returned, avgApartments is totalApartments /
\* buildingCount rounded to one decimal, buildingCount is not 0, and
\* avgApartments * buildingCount equals totalApartments up to floating-point
\* error (a difference, if any, is a multiple of 0.1).
C9_AverageTimesCountIsSum ==
  \A r \in DOMAIN pc :
    Succeeded(r) =>
      \A k \in 1..Len(Grid(r)) :
        LET c == Grid(r)[k]
        IN /\ c.buildingCount > 0
           /\ (2 * c.avgApartments - 1) * c.buildingCount <= 20 * c.totalApartments
           /\ 20 * c.totalApartments < (2 * c.avgApartments + 1) * c.buildingCount
           /\ c.avgApartments * c.buildingCount = 10 * c.totalApartments

\* C9, amended: for every cell returned, buildingCount is not 0, avgApartments
\* (in tenths) is totalApartments / buildingCount rounded to one decimal, a half
\* rounded up, and so avgApartments * buildingCount is within
\* 0.05 * buildingCount of totalApartments.
C9_AverageRoundedToTenth ==
  \A r \in DOMAIN pc :
    Succeeded(r) =>
      \A k \in 1..Len(Grid(r)) :
        LET c == Grid(r)[k]
        IN /\ c.buildingCount > 0
           /\ (2 * c.avgApartments - 1) * c.buildingCount <= 20 * c.totalApartments
           /\ 20 * c.totalApartments < (2 * c.avgApartments + 1) * c.buildingCount
           /\ 2 * (c.avgApartments * c.buildingCount - 10 * c.totalApartments)
                \in (0 - c.buildingCount)..c.buildingCount

\* A cell returned with 17 apartments in 3 buildings and avgApartments 5.7.
C9_Witness ==
  \E r \in DOMAIN pc :
    /\ Succeeded(r)
    /\ \E k \in 1..Len(Grid(r)) :
         /\ Grid(r)[k].buildingCount = 3
         /\ Grid(r)[k].totalApartments = 17
         /\ Grid(r)[k].avgApartments = 57

\* C10: in every successful response the cells are in non-increasing order of
\* densityScore.
C10_SortedByDensity ==
  \A r \in DOMAIN pc :
    Succeeded(r) =>
      \A i \in 1..(Len(Grid(r)) - 1) :
        Grid(r)[i].densityScore >= Grid(r)[i + 1].densityScore

\* A grid of three cells returned in another order than the map held them: the
\* cell inserted first has a lower densityScore than the one inserted second.
C10_Witness ==
  \E r \in DOMAIN pc :
    /\ Succeeded(r)
    /\ Len(Grid(r)) = 3
    /\ gridMap[r][1].densityScore < gridMap[r][2].densityScore
    /\ Grid(r)[1].densityScore > Grid(r)[3].densityScore

\* C11: in every successful response metadata.gridCells is the number of cells
\* returned, and metadata.maxDensity is the densityScore of the first cell, which
\* no cell exceeds, or 0 when no cell is returned.
C11_CellCountAndMaxDensity ==
  \A r \in DOMAIN pc :
    Succeeded(r) =>
      LET metadata == Resp(r).body.metadata
      IN /\ metadata.gridCells = Len(Grid(r))
         /\ "maxDensity" \in DOMAIN metadata
         /\ IF Len(Grid(r)) = 0
            THEN metadata.maxDensity = 0
            ELSE /\ metadata.maxDensity = Grid(r)[1].densityScore
                 /\ \A i \in 1..Len(Grid(r)) :
                      Grid(r)[i].densityScore <= metadata.maxDensity

\* C12: when the query of a request with a known city and a valid gridSize returns
\* no row, the response has status 200, success true, an empty grid,
\* totalBuildings 0, gridCells 0 and maxDensity 0.
C12_EmptyInputSucceeds ==
  \A r \in DOMAIN pc :
    (/\ fetched[r] = "rows" /\ buildings[r] = <<>>
     /\ BoundsDefined(city[r]) /\ ValidGridSize(gridSize[r])) =>
      /\ Answered(r)
      /\ Resp(r).status = 200
      /\ Resp(r).body.success = TRUE
      /\ Resp(r).body.grid = <<>>
      /\ Resp(r).body.metadata.totalBuildings = 0
      /\ Resp(r).body.metadata.gridCells = 0
      /\ "maxDensity" \in DOMAIN Resp(r).body.metadata
      /\ Resp(r).body.metadata.maxDensity = 0

\* The text is an optional sign followed by digits only.
IsIntegerText(s) ==
  LET j == IF Len(s) > 0 /\ s[1] \in {"-", "+"} THEN 2 ELSE 1
  IN j <= Len(s) /\ \A i \in j..Len(s) : IsDigit(s[i])

\* The gridSize parameter is absent or empty (the default applies) or the text of
\* an integer of the accepted range.
GridSizeParamValid(param) ==
  \/ param = Null
  \/ Val(param) = <<>>
  \/ /\ IsIntegerText(Val(param))
     /\ Val(ParseInt(Val(param))) \in MinGridSize..MaxGridSize

\* The request r was received with a city that is no key of CITY_BOUNDS or with a
\* gridSize parameter that is not valid.
InvalidRequest(r) ==
  /\ pc[r] # "start"
  /\ \/ ~BoundsDefined(city[r])
     \/ ~GridSizeParamValid(gridSizeParam[r])

\* C13: a request with an unknown city or with a gridSize parameter that is not an
\* integer of the accepted range is answered with an error payload and a non-2xx
\* status, and the record source is never queried for it.
C13_InvalidRequestRejected ==
  \A r \in DOMAIN pc :
    InvalidRequest(r) =>
      /\ queries[r] = 0
      /\ Answered(r)
      /\ Resp(r).status \notin 200..299
      /\ "error" \in DOMAIN Resp(r).body

\* C14: when the query of a request ends in an error, returned or thrown, the
\* response has a non-2xx status and an error payload without a grid, and the
\* record source was queried exactly once for the request.
C14_SourceFailureReported ==
  \A r \in DOMAIN pc :
    fetched[r] \in {"error", "thrown"} =>
      /\ Answered(r)
      /\ Resp(r).status \notin 200..299
      /\ "error" \in DOMAIN Resp(r).body
      /\ "grid" \notin DOMAIN Resp(r).body
      /\ queries[r] = 1

\* A request with a known city and a valid gridSize whose query returned an error:
\* it is answered 500 "Database query failed" after one query.
C14_Witness ==
  \E r \in DOMAIN pc :
    /\ BoundsDefined(city[r]) /\ ValidGridSize(gridSize[r])
    /\ fetched[r] = "error"
    /\ Answered(r)
    /\ Resp(r) = ErrorResponse(500, "Database query failed")
    /\ queries[r] = 1

\* The requests r1 and r2 ran on the same city, gridSize and rows.
SameInput(r1, r2) ==
  /\ city[r1] = city[r2]
  /\ gridSize[r1] = gridSize[r2]
  /\ buildings[r1] = buildings[r2]

RECURSIVE MapAlone(_, _)
MapAlone(r, n) ==
  IF n = 0
  THEN <<>>
  ELSE BinInto(MapAlone(r, n - 1), buildings[r][n], CITY_BOUNDS[city[r]], gridSize[r],
               thisYear[r])

\* The response a request alone gives to its rows.
ResponseAlone(r) ==
  IF Len(buildings[r]) = 0
  THEN EmptyResponse(r)
  ELSE GridResponse(r, GridCells(MapAlone(r, Len(buildings[r]))))

\* C16: while two requests interleave, the map of each holds what the request
\* alone builds from the rows it has processed, each successful response is the
\* one the request alone gives, and the bounds a response carries are the entry
\* of CITY_BOUNDS for its city.
C16_RequestsIndependent ==
  \A r \in DOMAIN pc :
    /\ pc[r] = "binning" => gridMap[r] = MapAlone(r, processedBuildings[r])
    /\ Succeeded(r) => Resp(r) = ResponseAlone(r)
    /\ (Succeeded(r) /\ Len(Grid(r)) > 0) =>
         Resp(r).body.metadata.bounds = CITY_BOUNDS[city[r]]

\* A request for Sevilla answered with the cell of its two rows while a request
\* for Madrid has binned the first of its two rows.
C16_Witness ==
  \E r1, r2 \in DOMAIN pc :
    /\ Succeeded(r1) /\ city[r1] = "sevilla"
    /\ Len(buildings[r1]) = 2 /\ Len(Grid(r1)) = 1
    /\ Grid(r1)[1].buildingCount = 2
    /\ city[r2] = "madrid" /\ pc[r2] = "binning"
    /\ Len(buildings[r2]) = 2 /\ processedBuildings[r2] = 1
    /\ Len(gridMap[r2]) = 1

\* The ingestion answered with the results of a run.
IngestAnswered == ingestResponse # <<>> /\ ingestResponse[1].status = 200
IngestResultsSent == ingestResponse[1].body.results

\* C17: during a run processed never exceeds maxBuildings, and a response with
\* limitReached true reports processed equal to maxBuildings.
C17_ProcessedWithinLimit ==
  phase = "streaming" =>
    /\ processed <= maxBuildings
    /\ (IngestAnswered /\ IngestResultsSent.limitReached) =>
         IngestResultsSent.processed = maxBuildings

\* C18: at any time at most one (batch) upsert is awaited: the features are
\* processed one after the other, whatever the order of the stream events, the
\* setImmediate callbacks and the answers of the database.
C18_OneUpsertAtATime == Len(upserts) <= 1

\* C19: once the response is sent the queue is empty, no feature is being
\* processed and no upsert is in progress: none is awaited when the response
\* is sent and none starts afterwards.
C19_RespondsWhenComplete ==
  (phase = "streaming" /\ ingestResponse # <<>>) =>
    /\ processingQueue = <<>>
    /\ ~isProcessing
    /\ upserts = <<>>

\* This step is processNext taking the feature f from the queue, called by the
\* 'data' handler or by the event loop.
Dequeues(f) ==
  /\ ~isProcessing /\ ~limitReached /\ processed < maxBuildings
  /\ \/ /\ pendingFeatures' = pendingFeatures
        /\ processingQueue # <<>>
        /\ immediates # <<>> /\ Head(immediates) = "processNext"
        /\ processingQueue' = Tail(processingQueue)
        /\ f = Head(processingQueue)
     \/ /\ pendingFeatures # <<>>
        /\ pendingFeatures' = Tail(pendingFeatures)
        /\ processingQueue' = Tail(Append(processingQueue, Head(pendingFeatures)))
        /\ f = Head(Append(processingQueue, Head(pendingFeatures)))

\* C20: when processNext takes a feature whose reference is in the pre-loaded set
\* or was seen earlier in the run, it increments skippedDuplicates, sends nothing
\* to the database and leaves processed and the batch as they are.
C20_DuplicateSkipped ==
  [][\A f \in FeaturePool :
       (Dequeues(f) /\ f.rc14 \in seen \cup existingBuildingIds) =>
         /\ skippedDuplicates' = skippedDuplicates + 1
         /\ upserts' = upserts
         /\ processed' = processed
         /\ buildingBatch' = buildingBatch]_vars

\* The stream gave E, which the table held, then A twice: two duplicates are
\* skipped, A waits in the batch and nothing was sent to the database.
C20_Witness ==
  /\ phase = "streaming"
  /\ skippedDuplicates = 2
  /\ seen = {"A", "E"}
  /\ Refs(buildingBatch) = {"A"} /\ Len(buildingBatch) = 1
  /\ processed = 0
  /\ upserts = <<>>
  /\ pendingFeatures = <<>>

\* C21: the references of existingBuildingIds and of processedBuildings are
\* references the table holds, loaded before the run or written by an upsert
\* that returned without error; and the step of an upsert that fails leaves both
\* sets and processed as they are.
C21_TrackedAfterUpsert ==
  /\ [](phase = "streaming" =>
         (existingBuildingIds \subseteq table /\ processedRefs \subseteq table))
  /\ [][UpsertFails =>
         /\ existingBuildingIds' = existingBuildingIds
         /\ processedRefs' = processedRefs
         /\ processed' = processed]_vars

\* The upsert of A failed and the upsert of B succeeded: B alone is tracked.
C21_Witness ==
  /\ phase = "streaming"
  /\ errorCount = 1
  /\ "A" \in DOMAIN sentRefs
  /\ "A" \notin existingBuildingIds
  /\ processedRefs = {"B"}
  /\ existingBuildingIds = {"B", "E"}
  /\ processed = 1

\* C22: the step of an upsert that fails adds the number of buildings of that
\* upsert to errorCount, leaves none of them in the batch, leaves the queue and
\* the stream as they are, and resolves no error response.
C22_FailureDoesNotAbort ==
  [][UpsertFails =>
       /\ \E i \in 1..Len(upserts) :
            /\ upserts' = SubSeq(upserts, 1, i - 1) \o SubSeq(upserts, i + 1, Len(upserts))
            /\ errorCount' = errorCount + Len(upserts[i].batch)
            /\ Refs(upserts[i].batch) \cap Refs(buildingBatch') = {}
       /\ processingQueue' = processingQueue
       /\ pendingFeatures' = pendingFeatures
       /\ (ingestResponse' = <<>> \/ ingestResponse'[1].status = 200)]_vars

\* C23: within a run no reference is carried by more than one upsert.
C23_SentAtMostOnce == \A ref \in DOMAIN sentRefs : sentRefs[ref] <= 1

\* C24: every ingestion request that was received is eventually resolved with a
\* response, whether the stream ends, the limit is reached, an upsert fails or
\* a stage of the pipeline emits an error.
C24_EventuallyResolved == (phase # "idle") ~> (ingestResponse # <<>>)

\* A stage failed after the upsert of a first batch failed and while a feature
\* waited in the queue: the request is resolved.
C24_Witness ==
  /\ phase = "streaming"
  /\ sourceState = "errored"
  /\ errorCount >= 1
  /\ ingestResponse # <<>>
  /\ ingestResponse[1].status = 500

\* Every attempt in the given positions of tokenAttempts failed.
AllFailed(positions) == \A i \in positions : ~AttemptSucceeds(tokenAttempts[i])

\* C25: one call of getIdealistaToken makes at most 4 token requests and waits
\* 1000, 2000 and 3000 ms before the second, third and fourth; it returns the
\* token of the first attempt that succeeds, and it throws only after a fourth
\* attempt failed, or at once and without a request when a credential is missing.
C25_TokenRetries ==
  /\ tokenRequests <= 4
  /\ tokenRequests = Len(tokenAttempts) + (IF tokenPc = "fetching" THEN 1 ELSE 0)
  /\ Len(tokenWaits) = (IF tokenPc = "waiting" THEN tokenRequests
                        ELSE IF tokenRequests = 0 THEN 0 ELSE tokenRequests - 1)
  /\ Len(tokenWaits) <= 3
  /\ \A i \in 1..Len(tokenWaits) : tokenWaits[i] = i * 1000
  /\ tokenPc = "returned" =>
       /\ tokenAttempts # <<>>
       /\ AttemptSucceeds(tokenAttempts[Len(tokenAttempts)])
       /\ AllFailed(1..(Len(tokenAttempts) - 1))
       /\ tokenResult = <<[thrown |-> FALSE,
                          value |-> tokenAttempts[Len(tokenAttempts)].access_token]>>
  /\ tokenPc = "thrown" =>
       /\ tokenResult # <<>> /\ tokenResult[1].thrown
       /\ \/ CredentialsMissing(apiKey, secret) /\ tokenRequests = 0
          \/ Len(tokenAttempts) = 4 /\ AllFailed(1..4)
  /\ (tokenPc # "idle" /\ CredentialsMissing(apiKey, secret)) =>
       (tokenPc = "thrown" /\ tokenRequests = 0)
  /\ (tokenPc \in {"fetching", "waiting"}) => AllFailed(1..Len(tokenAttempts))

\* The fourth attempt answered with a token after three failures and the three
\* waits: the call returned it.
C25_Witness ==
  /\ tokenPc = "returned"
  /\ tokenRequests = 4
  /\ tokenWaits = <<1000, 2000, 3000>>
  /\ tokenResult = <<[thrown |-> FALSE, value |-> Str("t2")]>>

====
